---- MODULE Spec2Model ----
(***************************************************************************)
(* Model of the status-polling client (react_native/app/services/api.ts)   *)
(* and of the video-call screen (react_native/app/(tabs)/videocall.tsx).   *)
(*                                                                         *)
(* SpecPoll / FairSpecPoll : one invocation of pollStatus, the backend's   *)
(*                           answers being the environment's choice.       *)
(* SpecCall                : the VideoCall component, its handlers and the *)
(*                           events of the peer-connection library.        *)
(* SpecDial, SpecTeardown,                                                  *)
(* SpecMedia               : SpecCall restricted to some of the handlers.  *)
(* SpecAnalysis            : one invocation of handleCallAnalysis of the   *)
(*                           video or the voice consultation screen.       *)
(* SpecTimer               : the call timer effect of the VideoCall screen.*)
(* SpecVoice               : the voice consultation screen                 *)
(*                           (react_native/app/(tabs)/firstscreen.tsx) and *)
(*                           the events of the voice SDK.                  *)
(***************************************************************************)
EXTENDS Integers, Sequences, FiniteSets, TLC

\* ------------------------------------------------------------------------
\* Bounds of the model
\* ------------------------------------------------------------------------
\* largest explicit value of options.maxAttempts that is enumerated
MaxAttemptsOpt == 3
\* number of local media streams the program may hold together (a stream is
\* held while the state, a closure or a connection refers to it)
MaxStreams == 2
\* number of getUserMedia calls that may be awaited together
MaxPending == 1
\* number of media connections that may exist together
MaxCalls == 2
\* number of entries the voice screen's transcript may grow to
MaxTranscript == 4
\* number of consultation analyses that may be in flight together
MaxAnalyses == 2
\* largest value of callDuration that is counted
MaxDuration == 2
\* number of interval timer ids
MaxTimers == 2

\* ------------------------------------------------------------------------
\* pollStatus: state
\* ------------------------------------------------------------------------
VARIABLES
  pPc,            \* position in pollStatus: "loop", "awaitStatus", "wait", "resolved", "rejected"
  optMaxAttempts, \* options.maxAttempts: Omitted (undefined) or a number
  hasOnProgress,  \* options.onProgress was given
  attempt,        \* the loop variable
  calls,          \* number of getStatus calls made so far
  waits,          \* number of interval timers started so far
  progressCalls,  \* number of onProgress calls made so far
  outcomes,       \* outcome of every attempt so far, in order
  result,         \* the StatusResponse the promise resolved with, or NoResult
  errMsg          \* the message of the Error the promise rejected with, or NoMsg

pollVars == <<pPc, optMaxAttempts, hasOnProgress, attempt, calls, waits,
              progressCalls, outcomes, result, errMsg>>

\* ------------------------------------------------------------------------
\* VideoCall screen: state
\* ------------------------------------------------------------------------
VARIABLES
  mounted,        \* the component is mounted
  sig,            \* signalling connection of the peer: "connecting", "open", "failed"
  peerInstance,   \* peerInstance.current holds a Peer (FALSE: null)
  peerId,         \* useState peerId ("" until the first 'open')
  peerReady,      \* useState peerReady
  remotePeerId,   \* useState remotePeerId, a sequence of characters
  localStream,    \* useState localStream: 0 (null) or a stream
  remoteStream,   \* useState remoteStream: 0 (null) or the call it came from
  isCalling,      \* useState isCalling
  isCallActive,   \* useState isCallActive
  isMuted,        \* useState isMuted
  isVideoOff,     \* useState isVideoOff
  facingMode,     \* useState facingMode
  isProcessing,   \* useState isProcessing
  currentCall,    \* currentCall.current: 0 (null) or a connection
  callStartTime,  \* callStartTime.current is non-null
  streams,        \* the tracks of every local stream in existence
  conns,          \* every media connection in existence
  pendingStart,   \* startCall invocations awaiting getUserMedia
  pendingAnswer,  \* answerCall invocations awaiting getUserMedia
  pendingFlip,    \* flipCamera invocations awaiting getUserMedia / replaceTrack
  anaInFlight,    \* handleCallAnalysis invocations not yet finished
  alert,          \* the Alert.alert shown by the last step ("none": it showed none)
  leaked          \* a local stream that nothing refers to any more still captures

callVars == <<mounted, sig, peerInstance, peerId, peerReady, remotePeerId,
              localStream, remoteStream, isCalling, isCallActive, isMuted,
              isVideoOff, facingMode, isProcessing, currentCall, callStartTime,
              streams, conns, pendingStart, pendingAnswer,
              pendingFlip, anaInFlight, alert, leaked>>

\* ------------------------------------------------------------------------
\* handleCallAnalysis (both consultation screens): state
\* ------------------------------------------------------------------------
VARIABLES
  screen,         \* the screen whose handleCallAnalysis runs: "video" or "voice"
  hcaPc,          \* position in handleCallAnalysis: "idle", "analyze", "poll", "done"
  callId,         \* the generated call id ("" before it is generated)
  query,          \* the query handed to analyzeQuery, as a sequence of parts
  analyzeResult,  \* classification of the resolved AnalyzeResponse, or "none"
  navAlert        \* the alert handleCallAnalysis showed and the navigation it offers

anaVars == <<screen, hcaPc, callId, query, analyzeResult, navAlert>>

\* ------------------------------------------------------------------------
\* VideoCall screen: call timer
\* ------------------------------------------------------------------------
VARIABLES
  callDuration,   \* useState callDuration
  callTimer,      \* callTimer.current: 0 (null) or the id of an interval timer
  liveTimers,     \* the interval timers that have been set and not cleared
  effActive       \* isCallActive of the render whose timer effect ran last

timerVars == <<callDuration, callTimer, liveTimers, effActive>>

\* ------------------------------------------------------------------------
\* Voice consultation screen (FirstScreen): state
\* ------------------------------------------------------------------------
VARIABLES
  isConnected,    \* useState isConnected
  transcript,     \* useState transcript: sequence of [speaker, text]
  transcriptRef,  \* transcriptRef.current: sequence of [speaker, text]
  vapi            \* the call of the voice SDK: "idle", "starting", "active", "stopping"

voiceVars == <<isConnected, transcript, transcriptRef, vapi>>

vars == <<pollVars, callVars, anaVars, timerVars, voiceVars>>

\* what a step of pollStatus alone leaves unchanged
nonPollVars == <<callVars, anaVars, timerVars, voiceVars>>

\* what a handler of the VideoCall screen leaves unchanged
nonCallVars == <<pollVars, anaVars, timerVars, voiceVars>>

\* options.maxAttempts left out (undefined)
Omitted == -1

\* default of the destructured option `maxAttempts = 5`
DefaultMaxAttempts == 5

\* variant: a default of 6 attempts
maxAttempts_default6 == IF optMaxAttempts = Omitted THEN 6 ELSE optMaxAttempts

\* const { maxAttempts = 5, ... } = options
maxAttempts == IF optMaxAttempts = Omitted THEN DefaultMaxAttempts ELSE optMaxAttempts

\* Error messages, as <<prefix, rest>> so that "starts with" is computed
MsgNoRecords     == <<"No records found", "for this call ID">>
MsgFetchFailed   == <<"Failed", "to fetch status">>
MsgNetwork       == <<"Network", "request failed">>
MsgDataNotAvail  == <<"Timeout:", "Data not available after maximum attempts">>
MsgFailedStatus  == <<"Timeout:", "Failed to get status after maximum attempts">>
NoMsg            == <<>>

StartsWithTimeout(m) == Len(m) > 0 /\ m[1] = "Timeout:"

\* values a field of the JSON body can take: an object, the 'No ... data'
\* string of the StatusResponse type, or JSON null
EmergencyValues == {"object", "No emergency data", "null"}
MedicalValues   == {"object", "No medical record data", "null"}

StatusBodies == [emergency_details : EmergencyValues,
                 medical_record_details : MedicalValues]

\* what the HTTP exchange of one getStatus call can come to
HttpOutcomes ==
  [http : {200}, body : StatusBodies]
    \cup [http : {404, 500, 0}, body : {[emergency_details |-> "-", medical_record_details |-> "-"]}]

\* getStatus: 200 -> the parsed body; 404 -> 'No records found ...';
\* other status -> 'Failed to fetch status'; fetch itself failing (0) rethrows
getStatus(o) ==
  IF o.http = 200 THEN [ok |-> TRUE, data |-> o.body, msg |-> NoMsg]
  ELSE IF o.http = 404 THEN [ok |-> FALSE, data |-> o.body, msg |-> MsgNoRecords]
  ELSE IF o.http = 0 THEN [ok |-> FALSE, data |-> o.body, msg |-> MsgNetwork]
  ELSE [ok |-> FALSE, data |-> o.body, msg |-> MsgFetchFailed]

\* typeof v === 'object' (true of null as well)
TypeofObject(v) == v \in {"object", "null"}

\* variant: the test without its `!== null` halves
HasData_noNullTest(status) ==
  \/ TypeofObject(status.emergency_details)
  \/ TypeofObject(status.medical_record_details)

\* the "meaningful data" test of pollStatus
HasData(status) ==
  \/ (TypeofObject(status.emergency_details) /\ status.emergency_details # "null")
  \/ (TypeofObject(status.medical_record_details) /\ status.medical_record_details # "null")

NoResult == [emergency_details |-> "-", medical_record_details |-> "-"]

\* an attempt whose onProgress callback threw before getStatus was called
ProgressThrew == [ok |-> FALSE, data |-> NoResult, msg |-> <<"onProgress", "threw">>]

\* a stream slot that holds no stream
NoStream == [audioEnabled |-> FALSE, videoEnabled |-> FALSE,
             audioLive |-> FALSE, videoLive |-> FALSE]

\* a connection that holds no stream, sender or handler: a free slot
\* ("none": never created, or emptied by close()) or a connection that rings
NoConn(state) ==
  [st |-> state, outgoing |-> FALSE, open |-> FALSE, handlers |-> FALSE,
   streamed |-> FALSE, capLocal |-> 0, stream |-> 0, videoSender |-> 0]

\* the screen after the mount effect ran; initializePeer either stored the
\* Peer or caught the constructor's exception and alerted
CallMounted(peerOk) ==
  /\ mounted = TRUE
  /\ sig = IF peerOk THEN "connecting" ELSE "failed"
  /\ peerInstance = peerOk
  /\ peerId = ""
  /\ peerReady = FALSE
  /\ remotePeerId = <<>>
  /\ localStream = 0
  /\ remoteStream = 0
  /\ isCalling = FALSE
  /\ isCallActive = FALSE
  /\ isMuted = FALSE
  /\ isVideoOff = FALSE
  /\ facingMode = "user"
  /\ isProcessing = FALSE
  /\ currentCall = 0
  /\ callStartTime = FALSE
  /\ streams = [s \in 1..MaxStreams |-> NoStream]
  /\ conns = [c \in 1..MaxCalls |-> NoConn("none")]
  /\ pendingStart = <<>>
  /\ pendingAnswer = <<>>
  /\ pendingFlip = <<>>
  /\ anaInFlight = 0
  /\ alert = IF peerOk THEN "none" ELSE "Failed to initialize peer connection"
  /\ leaked = FALSE
  /\ callDuration = 0
  /\ callTimer = 0
  /\ liveTimers = {}
  /\ effActive = FALSE

\* no handleCallAnalysis has been started
NoNav == [title |-> "none", pathname |-> "none", callId |-> ""]

AnalysisIdle(scr) ==
  /\ screen = scr
  /\ hcaPc = "idle"
  /\ callId = ""
  /\ query = <<>>
  /\ analyzeResult = "none"
  /\ navAlert = NoNav

\* the voice screen as constructed: not connected, empty transcript, no call
VoiceIdle ==
  /\ isConnected = FALSE
  /\ transcript = <<>>
  /\ transcriptRef = <<>>
  /\ vapi = "idle"

InitPoll ==
  /\ CallMounted(TRUE)
  /\ AnalysisIdle("video")
  /\ VoiceIdle
  /\ pPc = "loop"
  /\ optMaxAttempts \in {Omitted} \cup (0..MaxAttemptsOpt)
  /\ hasOnProgress \in BOOLEAN
  /\ attempt = 1
  /\ calls = 0
  /\ waits = 0
  /\ progressCalls = 0
  /\ outcomes = <<>>
  /\ result = NoResult
  /\ errMsg = NoMsg

\* variant: the last attempt rethrows the error it caught
CatchBlock_rethrow(r) ==
  /\ outcomes' = Append(outcomes, r)
  /\ IF attempt = maxAttempts
       THEN /\ pPc' = "rejected"
            /\ errMsg' = r.msg
            /\ waits' = waits
       ELSE /\ pPc' = "wait"
            /\ waits' = waits + 1
            /\ errMsg' = errMsg

\* the catch block: the last attempt rethrows as a timeout, any other falls
\* through to the wait
CatchBlock(r) ==
  /\ outcomes' = Append(outcomes, r)
  /\ IF attempt = maxAttempts
       THEN /\ pPc' = "rejected"
            /\ errMsg' = MsgDataNotAvail
            /\ waits' = waits
       ELSE /\ pPc' = "wait"
            /\ waits' = waits + 1
            /\ errMsg' = errMsg

\* loop head with attempt <= maxAttempts: onProgress, then getStatus is called
AttemptStart ==
  /\ pPc = "loop"
  /\ attempt <= maxAttempts
  /\ progressCalls' = IF hasOnProgress THEN progressCalls + 1 ELSE progressCalls
  /\ \/ /\ pPc' = "awaitStatus"
        /\ calls' = calls + 1
        /\ UNCHANGED <<waits, outcomes, errMsg>>
     \/ /\ hasOnProgress          \* the callback throws inside the try block
        /\ CatchBlock(ProgressThrew)
        /\ UNCHANGED calls
  /\ UNCHANGED <<optMaxAttempts, hasOnProgress, attempt, result>>

\* variant: the 404 of getStatus ends the polling at once
StatusSettles_abortsOn404 ==
  /\ pPc = "awaitStatus"
  /\ \E o \in HttpOutcomes :
       LET r == getStatus(o) IN
       IF r.ok
         THEN /\ outcomes' = Append(outcomes, r)
              /\ IF HasData(r.data)
                   THEN /\ pPc' = "resolved"
                        /\ result' = r.data
                        /\ waits' = waits
                   ELSE /\ pPc' = "wait"
                        /\ waits' = waits + 1
                        /\ result' = result
              /\ errMsg' = errMsg
         ELSE /\ IF r.msg = MsgNoRecords
                   THEN /\ outcomes' = Append(outcomes, r)
                        /\ pPc' = "rejected"
                        /\ errMsg' = r.msg
                        /\ waits' = waits
                   ELSE CatchBlock(r)
              /\ result' = result
  /\ UNCHANGED <<optMaxAttempts, hasOnProgress, attempt, calls, progressCalls>>

\* the awaited getStatus promise settles
StatusSettles ==
  /\ pPc = "awaitStatus"
  /\ \E o \in HttpOutcomes :
       LET r == getStatus(o) IN
       IF r.ok
         THEN /\ outcomes' = Append(outcomes, r)
              /\ IF HasData(r.data)
                   THEN /\ pPc' = "resolved"
                        /\ result' = r.data
                        /\ waits' = waits
                   ELSE /\ pPc' = "wait"
                        /\ waits' = waits + 1
                        /\ result' = result
              /\ errMsg' = errMsg
         ELSE /\ CatchBlock(r)
              /\ result' = result
  /\ UNCHANGED <<optMaxAttempts, hasOnProgress, attempt, calls, progressCalls>>

\* variant: the wait promise is never resolved by its timer
TimerFires_neverResolves ==
  /\ pPc = "wait"
  /\ UNCHANGED pollVars

\* the interval timer fires: attempt++ and back to the loop head
TimerFires ==
  /\ pPc = "wait"
  /\ attempt' = attempt + 1
  /\ pPc' = "loop"
  /\ UNCHANGED <<optMaxAttempts, hasOnProgress, calls, waits, progressCalls,
                 outcomes, result, errMsg>>

\* loop condition false: the throw after the loop
LoopExit ==
  /\ pPc = "loop"
  /\ attempt > maxAttempts
  /\ pPc' = "rejected"
  /\ errMsg' = MsgFailedStatus
  /\ UNCHANGED <<optMaxAttempts, hasOnProgress, attempt, calls, waits,
                 progressCalls, outcomes, result>>

NextPoll ==
  \/ AttemptStart /\ UNCHANGED nonPollVars
  \/ StatusSettles /\ UNCHANGED nonPollVars
  \/ TimerFires /\ UNCHANGED nonPollVars
  \/ LoopExit /\ UNCHANGED nonPollVars

SpecPoll == InitPoll /\ [][NextPoll]_vars

\* every getStatus call resolves or rejects and every interval timer fires
FairSpecPoll == SpecPoll /\ WF_vars(NextPoll)

\* ------------------------------------------------------------------------
\* VideoCall screen: helpers
\* ------------------------------------------------------------------------
\* pollStatus is not running while the screen is explored on its own
PollIdle ==
  /\ pPc = "loop"
  /\ optMaxAttempts = Omitted
  /\ hasOnProgress = FALSE
  /\ attempt = 1
  /\ calls = 0
  /\ waits = 0
  /\ progressCalls = 0
  /\ outcomes = <<>>
  /\ result = NoResult
  /\ errMsg = NoMsg

InitCall ==
  /\ PollIdle
  /\ AnalysisIdle("video")
  /\ VoiceIdle
  /\ \E peerOk \in BOOLEAN : CallMounted(peerOk)

\* values typed into the "Enter Contact ID" input
PeerIdInputs == {<<>>, <<" ">>, <<"p">>}

RECURSIVE TrimStart(_)
TrimStart(s) == IF s # <<>> /\ Head(s) = " " THEN TrimStart(Tail(s)) ELSE s

RECURSIVE TrimEnd(_)
TrimEnd(s) ==
  IF s # <<>> /\ s[Len(s)] = " " THEN TrimEnd(SubSeq(s, 1, Len(s) - 1)) ELSE s

\* variant: no trimming of the entered id
trim_identity(s) == s

\* String.prototype.trim
trim(s) == TrimEnd(TrimStart(s))

RemoveAt(q, i) == SubSeq(q, 1, i - 1) \o SubSeq(q, i + 1, Len(q))

\* the setup screen is rendered (otherwise the call screen is)
SetupScreen == ~isCallActive /\ ~isCalling

\* the 'Analyzing consultation...' overlay is on screen: it is part of the
\* call screen's JSX only
ProcessingOverlay == mounted /\ ~SetupScreen /\ isProcessing

\* a stream as getUserMedia({audio: true, video: {...}}) hands it out
FreshStream == [audioEnabled |-> TRUE, videoEnabled |-> TRUE,
                audioLive |-> TRUE, videoLive |-> TRUE]

\* the streams something still refers to: the localStream state, the
\* closures registered on the connections, the connections' own stream and
\* video sender, and the suspended startCall / flipCamera invocations
StreamRefs(ls, cs, ps, pf) ==
  ({ls} \cup {cs[c].capLocal : c \in DOMAIN cs} \cup {cs[c].stream : c \in DOMAIN cs}
      \cup {cs[c].videoSender : c \in DOMAIN cs}
      \cup {ps[i].capLocal : i \in DOMAIN ps}
      \cup {pf[i].capLocal : i \in DOMAIN pf}
      \cup {pf[i].newStream : i \in DOMAIN pf}) \ {0}

\* the streams whose enabled flags can still be read or written: the
\* localStream state and the stream a flipCamera is about to store there
Toggleable(ls, pf) == ({ls} \cup {pf[i].newStream : i \in DOMAIN pf}) \ {0}

\* a stream that nothing refers to any more is out of the program's reach;
\* of a stream that can no longer be localStream only the tracks' liveness
\* is kept
Collect(ss, refs, tog) ==
  [i \in DOMAIN ss |->
     IF i \notin refs THEN NoStream
     ELSE IF i \notin tog
       THEN [ss[i] EXCEPT !.audioEnabled = FALSE, !.videoEnabled = FALSE]
     ELSE ss[i]]

\* some stream of ss outside refs still has a live track
Leaks(ss, refs) ==
  \E i \in DOMAIN ss : i \notin refs /\ (ss[i].audioLive \/ ss[i].videoLive)

\* the stream table after a step that leaves it as raw: streams the step
\* left without any reference are dropped, and `leaked` records that one of
\* them was still capturing
SetStreams(raw) ==
  /\ streams' = Collect(raw,
                  StreamRefs(localStream', conns', pendingStart', pendingFlip'),
                  Toggleable(localStream', pendingFlip'))
  /\ leaked' = (leaked \/ Leaks(raw, StreamRefs(localStream', conns', pendingStart', pendingFlip')))

FreeStreams ==
  {s \in 1..MaxStreams :
     streams[s] = NoStream
       /\ s \notin StreamRefs(localStream, conns, pendingStart, pendingFlip)}

\* the slot of the next stream getUserMedia resolves with
NewStream == CHOOSE s \in FreeStreams : \A t \in FreeStreams : s <= t

\* getUserMedia calls that have not settled yet
GumPending ==
  Len(pendingStart) + Len(pendingAnswer)
    + Cardinality({i \in 1..Len(pendingFlip) : pendingFlip[i].stage = "media"})

\* another getUserMedia call fits into MaxStreams and MaxPending
GumBudget == Cardinality(FreeStreams) > GumPending /\ GumPending < MaxPending

FreeConns ==
  {c \in 1..MaxCalls :
     conns[c].st = "none"
       /\ c \notin ({remoteStream, currentCall}
                      \cup {pendingFlip[i].conn : i \in DOMAIN pendingFlip})}

\* the slot of the next media connection
NewConn == CHOOSE c \in FreeConns : \A d \in FreeConns : c <= d

\* another media connection fits into MaxCalls
CallBudget == Cardinality(FreeConns) > Len(pendingStart)

\* track.stop() on every track of the streams in S
StopTracks(ss, S) ==
  [i \in DOMAIN ss |->
     IF i \in S THEN [ss[i] EXCEPT !.audioLive = FALSE, !.videoLive = FALSE]
     ELSE ss[i]]

\* MediaConnection.close(): the connection drops its streams and its peer
\* connection and is not open any more
ClosedBy(cs, c) == [cs EXCEPT ![c] = NoConn("none")]

\* close() on an open connection emits 'close' before it returns, which
\* runs the endCall closure registered on that connection
EmitsClose(cs, c) == c # 0 /\ cs[c].open /\ cs[c].handlers

\* endCall: the connection table after `currentCall.current.close()`
EndCallConns(cs) == IF currentCall # 0 THEN ClosedBy(cs, currentCall) ELSE cs

\* endCall: the streams whose tracks get stopped: the closure's localStream
\* and that of the closure run by the re-entrant 'close'
EndCallStops(cap, cs) ==
  ({cap} \cup (IF EmitsClose(cs, currentCall) THEN {cs[currentCall].capLocal} ELSE {}))
    \ {0}

\* endCall: number of handleCallAnalysis invocations it starts
EndCallStarts(cs) ==
  IF callStartTime
    THEN (IF EmitsClose(cs, currentCall) THEN 2 ELSE 1)
    ELSE 0

\* variant: endCall leaves the mute / video-off flags alone
EndCall_keepFlags(cap, cs) ==
  /\ anaInFlight + EndCallStarts(cs) <= MaxAnalyses
  /\ conns' = EndCallConns(cs)
  /\ currentCall' = 0
  /\ localStream' = IF EndCallStops(cap, cs) # {} THEN 0 ELSE localStream
  /\ remoteStream' = 0
  /\ isCallActive' = FALSE
  /\ isCalling' = FALSE
  /\ UNCHANGED <<isMuted, isVideoOff>>
  /\ anaInFlight' = anaInFlight + EndCallStarts(cs)
  /\ isProcessing' = IF EndCallStarts(cs) > 0 THEN TRUE ELSE isProcessing

\* endCall, run by a closure whose localStream is cap, on connection table
\* cs (the tracks of EndCallStops(cap, cs) are stopped by the caller's
\* SetStreams)
EndCall(cap, cs) ==
  /\ anaInFlight + EndCallStarts(cs) <= MaxAnalyses
  /\ conns' = EndCallConns(cs)
  /\ currentCall' = 0
  /\ localStream' = IF EndCallStops(cap, cs) # {} THEN 0 ELSE localStream
  /\ remoteStream' = 0
  /\ isCallActive' = FALSE
  /\ isCalling' = FALSE
  /\ isMuted' = FALSE
  /\ isVideoOff' = FALSE
  /\ anaInFlight' = anaInFlight + EndCallStarts(cs)
  /\ isProcessing' = IF EndCallStarts(cs) > 0 THEN TRUE ELSE isProcessing

\* ------------------------------------------------------------------------
\* VideoCall screen: peer events
\* ------------------------------------------------------------------------

\* peer.on('open')
PeerOpen ==
  /\ mounted /\ peerInstance /\ sig = "connecting"
  /\ sig' = "open"
  /\ peerId' = "me"
  /\ peerReady' = TRUE
  /\ alert' = "none"
  /\ UNCHANGED <<mounted, peerInstance, remotePeerId, localStream,
                 remoteStream, isCalling, isCallActive, isMuted, isVideoOff,
                 facingMode, isProcessing, currentCall, callStartTime,
                 streams, conns, pendingStart, pendingAnswer, pendingFlip,
                 anaInFlight, leaked>>

\* peer.on('disconnected'): peerReady false, then peer.reconnect()
PeerDisconnected ==
  /\ mounted /\ peerInstance /\ sig = "open"
  /\ peerReady' = FALSE
  /\ sig' = "connecting"
  /\ alert' = "none"
  /\ UNCHANGED <<mounted, peerInstance, peerId, remotePeerId, localStream,
                 remoteStream, isCalling, isCallActive, isMuted, isVideoOff,
                 facingMode, isProcessing, currentCall, callStartTime,
                 streams, conns, pendingStart, pendingAnswer, pendingFlip,
                 anaInFlight, leaked>>

\* peer.on('error'): the signalling connection survives the error or not
PeerError ==
  /\ mounted /\ peerInstance /\ sig # "failed"
  /\ alert' = "Connection Error"
  /\ peerReady' = FALSE
  /\ sig' \in {sig, "failed"}
  /\ UNCHANGED <<mounted, peerInstance, peerId, remotePeerId, localStream,
                 remoteStream, isCalling, isCallActive, isMuted, isVideoOff,
                 facingMode, isProcessing, currentCall, callStartTime,
                 streams, conns, pendingStart, pendingAnswer, pendingFlip,
                 anaInFlight, leaked>>

\* peer.on('call'): the Decline / Accept alert is shown
IncomingCall ==
  /\ mounted /\ peerInstance /\ sig = "open"
  /\ CallBudget
  /\ conns' = [conns EXCEPT ![NewConn] = NoConn("ringing")]
  /\ alert' = "Incoming Call"
  /\ UNCHANGED <<mounted, sig, peerInstance, peerId, peerReady,
                 remotePeerId, localStream, remoteStream, isCalling,
                 isCallActive, isMuted, isVideoOff, facingMode,
                 isProcessing, currentCall, callStartTime, streams,
                 pendingStart, pendingAnswer, pendingFlip, anaInFlight,
                 leaked>>

\* "Decline": call.close() on a connection that was never answered
DeclineCall ==
  /\ mounted
  /\ \E c \in 1..MaxCalls :
       /\ conns[c].st = "ringing"
       /\ conns' = ClosedBy(conns, c)
  /\ alert' = "none"
  /\ UNCHANGED <<mounted, sig, peerInstance, peerId, peerReady,
                 remotePeerId, localStream, remoteStream, isCalling,
                 isCallActive, isMuted, isVideoOff, facingMode,
                 isProcessing, currentCall, callStartTime, streams,
                 pendingStart, pendingAnswer, pendingFlip, anaInFlight,
                 leaked>>

\* "Accept": answerCall up to its await of startLocalStream
AcceptCall ==
  /\ mounted
  /\ GumBudget
  /\ \E c \in 1..MaxCalls :
       /\ conns[c].st = "ringing"
       /\ conns' = [conns EXCEPT ![c].st = "answering"]
       /\ pendingAnswer' = Append(pendingAnswer, c)
  /\ isCalling' = TRUE
  /\ alert' = "none"
  /\ UNCHANGED <<mounted, sig, peerInstance, peerId, peerReady,
                 remotePeerId, localStream, remoteStream, isCallActive,
                 isMuted, isVideoOff, facingMode, isProcessing, currentCall,
                 callStartTime, streams, pendingStart, pendingFlip,
                 anaInFlight, leaked>>

\* answerCall after getUserMedia resolved: answer, store the connection and
\* register the handlers; answerCall was captured by the mount render, so
\* its endCall sees localStream = null
AnswerMediaResolved ==
  /\ mounted
  /\ \E i \in 1..Len(pendingAnswer) :
       /\ conns' = [conns EXCEPT ![pendingAnswer[i]] =
                      [st |-> "live", outgoing |-> FALSE, open |-> TRUE,
                       handlers |-> TRUE, streamed |-> FALSE, capLocal |-> 0,
                       stream |-> NewStream, videoSender |-> NewStream]]
       /\ currentCall' = pendingAnswer[i]
       /\ pendingAnswer' = RemoveAt(pendingAnswer, i)
  /\ localStream' = NewStream
  /\ alert' = "none"
  /\ UNCHANGED <<mounted, sig, peerInstance, peerId, peerReady,
                 remotePeerId, remoteStream, isCalling, isCallActive,
                 isMuted, isVideoOff, facingMode, isProcessing,
                 callStartTime, pendingStart, pendingFlip, anaInFlight>>
  /\ SetStreams([streams EXCEPT ![NewStream] = FreshStream])

\* answerCall after getUserMedia rejected: the connection is never answered
\* and nothing refers to it any more
AnswerMediaRejected ==
  /\ mounted
  /\ \E i \in 1..Len(pendingAnswer) :
       /\ conns' = [conns EXCEPT ![pendingAnswer[i]] = NoConn("none")]
       /\ pendingAnswer' = RemoveAt(pendingAnswer, i)
  /\ alert' = "Failed to answer call"
  /\ isCalling' = FALSE
  /\ UNCHANGED <<mounted, sig, peerInstance, peerId, peerReady,
                 remotePeerId, localStream, remoteStream, isCallActive,
                 isMuted, isVideoOff, facingMode, isProcessing, currentCall,
                 callStartTime, streams, pendingStart, pendingFlip,
                 anaInFlight, leaked>>

\* ------------------------------------------------------------------------
\* VideoCall screen: placing a call
\* ------------------------------------------------------------------------

\* onChangeText of the contact id input
SetRemotePeerId ==
  /\ mounted /\ SetupScreen
  /\ \E v \in PeerIdInputs : v # remotePeerId /\ remotePeerId' = v
  /\ alert' = "none"
  /\ UNCHANGED <<mounted, sig, peerInstance, peerId, peerReady, localStream,
                 remoteStream, isCalling, isCallActive, isMuted, isVideoOff,
                 facingMode, isProcessing, currentCall, callStartTime,
                 streams, conns, pendingStart, pendingAnswer, pendingFlip,
                 anaInFlight, leaked>>

\* the two early returns of startCall: the alert shown, or "none"
StartCallRefusal ==
  IF trim(remotePeerId) = <<>> THEN "Please enter a peer ID to call"
  ELSE IF ~peerReady \/ ~peerInstance THEN "Peer connection not ready"
  ELSE "none"

\* the Start Call button (rendered on the setup screen, disabled while
\* !peerReady): startCall up to its await of startLocalStream
StartCall ==
  /\ mounted /\ SetupScreen /\ peerReady
  /\ IF StartCallRefusal # "none"
       THEN /\ alert' = StartCallRefusal
            /\ UNCHANGED <<isCalling, pendingStart>>
       ELSE /\ GumBudget /\ CallBudget
            /\ isCalling' = TRUE
            /\ pendingStart' = Append(pendingStart, [capLocal |-> localStream])
            /\ alert' = "none"
  /\ UNCHANGED <<mounted, sig, peerInstance, peerId, peerReady,
                 remotePeerId, localStream, remoteStream, isCallActive,
                 isMuted, isVideoOff, facingMode, isProcessing, currentCall,
                 callStartTime, streams, conns, pendingAnswer, pendingFlip,
                 anaInFlight, leaked>>

\* startCall after getUserMedia resolved: peer.call, store the connection
\* and register the handlers, whose endCall is the one of the render that
\* startCall came from; peer.call returns undefined on a disconnected peer
\* (and emits the peer's 'error'), which startCall turns into its catch
StartMediaResolved ==
  /\ mounted
  /\ \E i \in 1..Len(pendingStart) :
       /\ pendingStart' = RemoveAt(pendingStart, i)
       /\ IF sig = "open"
            THEN /\ conns' = [conns EXCEPT ![NewConn] =
                                [st |-> "live", outgoing |-> TRUE, open |-> FALSE,
                                 handlers |-> TRUE, streamed |-> FALSE,
                                 capLocal |-> pendingStart[i].capLocal,
                                 stream |-> NewStream, videoSender |-> NewStream]]
                 /\ currentCall' = NewConn
                 /\ alert' = "none"
                 /\ UNCHANGED <<isCalling, peerReady>>
            ELSE /\ alert' = "Failed to start call"
                 /\ isCalling' = FALSE
                 /\ peerReady' = FALSE
                 /\ UNCHANGED <<conns, currentCall>>
  /\ localStream' = NewStream
  /\ UNCHANGED <<mounted, sig, peerInstance, peerId, remotePeerId,
                 remoteStream, isCallActive, isMuted, isVideoOff,
                 facingMode, isProcessing, callStartTime, pendingAnswer,
                 pendingFlip, anaInFlight>>
  /\ SetStreams([streams EXCEPT ![NewStream] = FreshStream])

\* startCall after getUserMedia rejected
StartMediaRejected ==
  /\ mounted
  /\ \E i \in 1..Len(pendingStart) : pendingStart' = RemoveAt(pendingStart, i)
  /\ alert' = "Failed to start call"
  /\ isCalling' = FALSE
  /\ UNCHANGED <<mounted, sig, peerInstance, peerId, peerReady,
                 remotePeerId, localStream, remoteStream, isCallActive,
                 isMuted, isVideoOff, facingMode, isProcessing, currentCall,
                 callStartTime, conns, pendingAnswer, pendingFlip,
                 anaInFlight>>
  /\ SetStreams(streams)

\* ------------------------------------------------------------------------
\* VideoCall screen: events of a media connection, teardown
\* ------------------------------------------------------------------------

\* call.on('stream'): the remote stream arrives (for a placed call this is
\* when the callee has answered and the connection is open)
CallStream ==
  /\ mounted
  /\ \E c \in 1..MaxCalls :
       /\ conns[c].st = "live" /\ conns[c].handlers /\ ~conns[c].streamed
       /\ conns' = [conns EXCEPT ![c].streamed = TRUE, ![c].open = TRUE]
       /\ remoteStream' = c
  /\ isCallActive' = TRUE
  /\ isCalling' = FALSE
  /\ callStartTime' = TRUE
  /\ alert' = "none"
  /\ UNCHANGED <<mounted, sig, peerInstance, peerId, peerReady,
                 remotePeerId, localStream, isMuted, isVideoOff, facingMode,
                 isProcessing, currentCall, streams, pendingStart,
                 pendingAnswer, pendingFlip, anaInFlight, leaked>>

\* the connections whose 'close' handler can fire: open ones
CanClose == {c \in 1..MaxCalls : conns[c].st = "live" /\ conns[c].open /\ conns[c].handlers}

\* the connections whose 'error' handler can fire
CanError == {c \in 1..MaxCalls : conns[c].st = "live" /\ conns[c].handlers}

\* call.on('close'), the remote side or the transport closing an open
\* connection: the registered closure runs endCall
CallClose ==
  /\ mounted
  /\ \E c \in CanClose :
       /\ EndCall(conns[c].capLocal, ClosedBy(conns, c))
       /\ UNCHANGED <<mounted, sig, peerInstance, peerId, peerReady,
                      remotePeerId, facingMode, callStartTime, pendingStart,
                      pendingAnswer, pendingFlip>>
       /\ SetStreams(StopTracks(streams,
                       EndCallStops(conns[c].capLocal, ClosedBy(conns, c))))
  /\ alert' = "none"

\* call.on('error'): alert, then the registered closure runs endCall
CallError ==
  /\ mounted
  /\ \E c \in CanError :
       /\ alert' = IF conns[c].outgoing THEN "Failed to establish call"
                   ELSE "Call Error"
       /\ EndCall(conns[c].capLocal, conns)
       /\ UNCHANGED <<mounted, sig, peerInstance, peerId, peerReady,
                      remotePeerId, facingMode, callStartTime, pendingStart,
                      pendingAnswer, pendingFlip>>
       /\ SetStreams(StopTracks(streams, EndCallStops(conns[c].capLocal, conns)))

\* the back button and the end-call button of the call screen: endCall of
\* the current render
EndCallButton ==
  /\ mounted /\ ~SetupScreen
  /\ EndCall(localStream, conns)
  /\ alert' = "none"
  /\ UNCHANGED <<mounted, sig, peerInstance, peerId, peerReady,
                 remotePeerId, facingMode, callStartTime, pendingStart,
                 pendingAnswer, pendingFlip>>
  /\ SetStreams(StopTracks(streams, EndCallStops(localStream, conns)))

\* the connections peer.destroy() still finds open and closes
DestroyEmits(cs) == {c \in 1..MaxCalls : cs[c].st = "live" /\ EmitsClose(cs, c)}

\* the streams stopped during cleanup: by its own endCall (localStream =
\* null in its closure) and by the closures that peer.destroy() runs
UnmountStops ==
  EndCallStops(0, conns)
    \cup ({EndCallConns(conns)[c].capLocal : c \in DestroyEmits(EndCallConns(conns))} \ {0})

\* the analyses started during cleanup
UnmountStarts ==
  EndCallStarts(conns)
    + (IF callStartTime THEN Cardinality(DestroyEmits(EndCallConns(conns))) ELSE 0)

\* cleanup of the mount effect: endCall of the mount render (localStream =
\* null), then peer.destroy(), which closes every remaining connection and
\* so runs their 'close' closures, then peerInstance.current = null
Unmount ==
  /\ mounted
  /\ anaInFlight + UnmountStarts <= MaxAnalyses
  /\ conns' = [c \in 1..MaxCalls |-> NoConn("none")]
  /\ localStream' = IF UnmountStops # {} THEN 0 ELSE localStream
  /\ anaInFlight' = anaInFlight + UnmountStarts
  /\ isProcessing' = IF UnmountStarts > 0 THEN TRUE ELSE isProcessing
  /\ currentCall' = 0
  /\ remoteStream' = 0
  /\ isCallActive' = FALSE
  /\ isCalling' = FALSE
  /\ isMuted' = FALSE
  /\ isVideoOff' = FALSE
  /\ peerInstance' = FALSE
  /\ mounted' = FALSE
  /\ alert' = "none"
  /\ UNCHANGED <<sig, peerId, peerReady, remotePeerId, facingMode,
                 callStartTime, pendingStart, pendingAnswer, pendingFlip>>
  /\ SetStreams(StopTracks(streams, UnmountStops))

\* handleCallAnalysis runs to its end: the navigation alert when analyzeQuery
\* and pollStatus succeeded, nothing shown otherwise; the finally block
\* clears isProcessing and callStartTime
AnalysisDone ==
  /\ mounted
  /\ anaInFlight > 0
  /\ anaInFlight' = anaInFlight - 1
  /\ \E outcome \in {"Emergency Detected", "Consultation Complete", "none"} :
       alert' = outcome
  /\ isProcessing' = FALSE
  /\ callStartTime' = FALSE
  /\ UNCHANGED <<mounted, sig, peerInstance, peerId, peerReady,
                 remotePeerId, localStream, remoteStream, isCalling,
                 isCallActive, isMuted, isVideoOff, facingMode, currentCall,
                 streams, conns, pendingStart, pendingAnswer, pendingFlip,
                 leaked>>

\* ------------------------------------------------------------------------
\* VideoCall screen: local stream toggling, camera-track replacement
\* ------------------------------------------------------------------------

\* toggleMute on local stream ls, track table ss and isMuted m (a stream of
\* getUserMedia({audio: true, video: ...}) has an audio and a video track)
toggleMute(ls, ss, m) ==
  IF ls # 0
    THEN LET enabled == ~ss[ls].audioEnabled IN
         [streams |-> [ss EXCEPT ![ls].audioEnabled = enabled], isMuted |-> ~enabled]
    ELSE [streams |-> ss, isMuted |-> m]

\* toggleVideo on local stream ls, track table ss and isVideoOff v
toggleVideo(ls, ss, v) ==
  IF ls # 0
    THEN LET enabled == ~ss[ls].videoEnabled IN
         [streams |-> [ss EXCEPT ![ls].videoEnabled = enabled], isVideoOff |-> ~enabled]
    ELSE [streams |-> ss, isVideoOff |-> v]

\* the microphone button of the call screen
ToggleMute ==
  /\ mounted /\ ~SetupScreen
  /\ streams' = toggleMute(localStream, streams, isMuted).streams
  /\ isMuted' = toggleMute(localStream, streams, isMuted).isMuted
  /\ alert' = "none"
  /\ UNCHANGED <<mounted, sig, peerInstance, peerId, peerReady,
                 remotePeerId, localStream, remoteStream, isCalling,
                 isCallActive, isVideoOff, facingMode, isProcessing,
                 currentCall, callStartTime, conns, pendingStart,
                 pendingAnswer, pendingFlip, anaInFlight, leaked>>

\* the camera button of the call screen
ToggleVideo ==
  /\ mounted /\ ~SetupScreen
  /\ streams' = toggleVideo(localStream, streams, isVideoOff).streams
  /\ isVideoOff' = toggleVideo(localStream, streams, isVideoOff).isVideoOff
  /\ alert' = "none"
  /\ UNCHANGED <<mounted, sig, peerInstance, peerId, peerReady,
                 remotePeerId, localStream, remoteStream, isCalling,
                 isCallActive, isMuted, facingMode, isProcessing,
                 currentCall, callStartTime, conns, pendingStart,
                 pendingAnswer, pendingFlip, anaInFlight, leaked>>

Flipped(f) == IF f = "user" THEN "environment" ELSE "user"

\* the camera-reverse button (rendered while !isVideoOff): flipCamera up to
\* its await of getUserMedia; the current video track is stopped first
FlipCamera ==
  /\ mounted /\ ~SetupScreen /\ ~isVideoOff
  /\ localStream # 0
  /\ GumBudget
  /\ pendingFlip' = Append(pendingFlip,
                      [capLocal |-> localStream, capFacing |-> facingMode,
                       wasLive |-> streams[localStream].videoLive,
                       stage |-> "media", newStream |-> 0, conn |-> 0])
  /\ alert' = "none"
  /\ UNCHANGED <<mounted, sig, peerInstance, peerId, peerReady,
                 remotePeerId, localStream, remoteStream, isCalling,
                 isCallActive, isMuted, isVideoOff, facingMode,
                 isProcessing, currentCall, callStartTime, conns,
                 pendingStart, pendingAnswer, anaInFlight>>
  /\ SetStreams([streams EXCEPT ![localStream].videoLive = FALSE])

\* the end of a successful flipCamera: connection c's video sender (c = 0:
\* no connection) carries the new track; setLocalStream, setFacingMode
FlipCommit(i, s, c) ==
  /\ conns' = IF c # 0 THEN [conns EXCEPT ![c].videoSender = s] ELSE conns
  /\ localStream' = s
  /\ facingMode' = Flipped(pendingFlip[i].capFacing)
  /\ pendingFlip' = RemoveAt(pendingFlip, i)

\* flipCamera after getUserMedia resolved: with a current connection that
\* has a video sender, replaceTrack is awaited; otherwise the flip is done
FlipMediaResolved ==
  /\ mounted
  /\ \E i \in 1..Len(pendingFlip) :
       /\ pendingFlip[i].stage = "media"
       /\ IF currentCall # 0 /\ conns[currentCall].videoSender # 0
            THEN /\ pendingFlip' = [pendingFlip EXCEPT ![i].stage = "replace",
                                                       ![i].newStream = NewStream,
                                                       ![i].conn = currentCall]
                 /\ UNCHANGED <<conns, localStream, facingMode>>
            ELSE FlipCommit(i, NewStream, 0)
  /\ alert' = "none"
  /\ UNCHANGED <<mounted, sig, peerInstance, peerId, peerReady,
                 remotePeerId, remoteStream, isCalling, isCallActive,
                 isMuted, isVideoOff, isProcessing, currentCall,
                 callStartTime, pendingStart, pendingAnswer, anaInFlight>>
  /\ SetStreams([streams EXCEPT ![NewStream] = FreshStream])

\* flipCamera after replaceTrack resolved (it cannot on a closed connection)
FlipReplaceResolved ==
  /\ mounted
  /\ \E i \in 1..Len(pendingFlip) :
       /\ pendingFlip[i].stage = "replace"
       /\ conns[pendingFlip[i].conn].st = "live"
       /\ FlipCommit(i, pendingFlip[i].newStream, pendingFlip[i].conn)
  /\ alert' = "none"
  /\ UNCHANGED <<mounted, sig, peerInstance, peerId, peerReady,
                 remotePeerId, remoteStream, isCalling, isCallActive,
                 isMuted, isVideoOff, isProcessing, currentCall,
                 callStartTime, pendingStart, pendingAnswer, anaInFlight>>
  /\ SetStreams(streams)

\* flipCamera's catch: getUserMedia or replaceTrack rejected
FlipFailed ==
  /\ mounted
  /\ \E i \in 1..Len(pendingFlip) : pendingFlip' = RemoveAt(pendingFlip, i)
  /\ alert' = "Could not flip camera"
  /\ UNCHANGED <<mounted, sig, peerInstance, peerId, peerReady,
                 remotePeerId, localStream, remoteStream, isCalling,
                 isCallActive, isMuted, isVideoOff, facingMode,
                 isProcessing, currentCall, callStartTime, conns,
                 pendingStart, pendingAnswer, anaInFlight>>
  /\ SetStreams(streams)

\* the Decline / Accept alert of an incoming call is modal: while one is up
\* the controls of the screen cannot be pressed
NoIncomingAlert == \A c \in 1..MaxCalls : conns[c].st # "ringing"

\* every handler and event of the screen
NextCall ==
  \/ PeerOpen /\ UNCHANGED nonCallVars
  \/ PeerDisconnected /\ UNCHANGED nonCallVars
  \/ PeerError /\ UNCHANGED nonCallVars
  \/ IncomingCall /\ UNCHANGED nonCallVars
  \/ DeclineCall /\ UNCHANGED nonCallVars
  \/ AcceptCall /\ UNCHANGED nonCallVars
  \/ AnswerMediaResolved /\ UNCHANGED nonCallVars
  \/ AnswerMediaRejected /\ UNCHANGED nonCallVars
  \/ NoIncomingAlert /\ SetRemotePeerId /\ UNCHANGED nonCallVars
  \/ NoIncomingAlert /\ StartCall /\ UNCHANGED nonCallVars
  \/ StartMediaResolved /\ UNCHANGED nonCallVars
  \/ StartMediaRejected /\ UNCHANGED nonCallVars
  \/ CallStream /\ UNCHANGED nonCallVars
  \/ CallClose /\ UNCHANGED nonCallVars
  \/ CallError /\ UNCHANGED nonCallVars
  \/ NoIncomingAlert /\ EndCallButton /\ UNCHANGED nonCallVars
  \/ Unmount /\ UNCHANGED nonCallVars
  \/ AnalysisDone /\ UNCHANGED nonCallVars
  \/ NoIncomingAlert /\ ToggleMute /\ UNCHANGED nonCallVars
  \/ NoIncomingAlert /\ ToggleVideo /\ UNCHANGED nonCallVars
  \/ NoIncomingAlert /\ FlipCamera /\ UNCHANGED nonCallVars
  \/ FlipMediaResolved /\ UNCHANGED nonCallVars
  \/ FlipReplaceResolved /\ UNCHANGED nonCallVars
  \/ FlipFailed /\ UNCHANGED nonCallVars

SpecCall == InitCall /\ [][NextCall]_vars

\* placing and ending calls over a signalling connection that may drop or
\* fail; the controls of the call screen are left alone and nobody calls in
NextDial ==
  \/ PeerOpen /\ UNCHANGED nonCallVars
  \/ PeerDisconnected /\ UNCHANGED nonCallVars
  \/ PeerError /\ UNCHANGED nonCallVars
  \/ SetRemotePeerId /\ UNCHANGED nonCallVars
  \/ StartCall /\ UNCHANGED nonCallVars
  \/ StartMediaResolved /\ UNCHANGED nonCallVars
  \/ StartMediaRejected /\ UNCHANGED nonCallVars
  \/ CallStream /\ UNCHANGED nonCallVars
  \/ CallClose /\ UNCHANGED nonCallVars
  \/ CallError /\ UNCHANGED nonCallVars
  \/ EndCallButton /\ UNCHANGED nonCallVars
  \/ Unmount /\ UNCHANGED nonCallVars
  \/ AnalysisDone /\ UNCHANGED nonCallVars

SpecDial == InitCall /\ [][NextDial]_vars

\* placing and ending calls and using the controls of the call screen, over
\* a signalling connection that stays up; nobody calls in
NextMedia ==
  \/ PeerOpen /\ UNCHANGED nonCallVars
  \/ SetRemotePeerId /\ UNCHANGED nonCallVars
  \/ StartCall /\ UNCHANGED nonCallVars
  \/ StartMediaResolved /\ UNCHANGED nonCallVars
  \/ StartMediaRejected /\ UNCHANGED nonCallVars
  \/ CallStream /\ UNCHANGED nonCallVars
  \/ CallClose /\ UNCHANGED nonCallVars
  \/ CallError /\ UNCHANGED nonCallVars
  \/ EndCallButton /\ UNCHANGED nonCallVars
  \/ Unmount /\ UNCHANGED nonCallVars
  \/ AnalysisDone /\ UNCHANGED nonCallVars
  \/ ToggleMute /\ UNCHANGED nonCallVars
  \/ ToggleVideo /\ UNCHANGED nonCallVars
  \/ FlipCamera /\ UNCHANGED nonCallVars
  \/ FlipMediaResolved /\ UNCHANGED nonCallVars
  \/ FlipReplaceResolved /\ UNCHANGED nonCallVars
  \/ FlipFailed /\ UNCHANGED nonCallVars

SpecMedia == InitCall /\ [][NextMedia]_vars

\* every way into a call and every way endCall runs, with the mute and
\* video toggles, over a signalling connection that stays up
NextTeardown ==
  \/ PeerOpen /\ UNCHANGED nonCallVars
  \/ NoIncomingAlert /\ SetRemotePeerId /\ UNCHANGED nonCallVars
  \/ NoIncomingAlert /\ StartCall /\ UNCHANGED nonCallVars
  \/ StartMediaResolved /\ UNCHANGED nonCallVars
  \/ StartMediaRejected /\ UNCHANGED nonCallVars
  \/ IncomingCall /\ UNCHANGED nonCallVars
  \/ DeclineCall /\ UNCHANGED nonCallVars
  \/ AcceptCall /\ UNCHANGED nonCallVars
  \/ AnswerMediaResolved /\ UNCHANGED nonCallVars
  \/ AnswerMediaRejected /\ UNCHANGED nonCallVars
  \/ CallStream /\ UNCHANGED nonCallVars
  \/ CallClose /\ UNCHANGED nonCallVars
  \/ CallError /\ UNCHANGED nonCallVars
  \/ NoIncomingAlert /\ EndCallButton /\ UNCHANGED nonCallVars
  \/ Unmount /\ UNCHANGED nonCallVars
  \/ AnalysisDone /\ UNCHANGED nonCallVars
  \/ NoIncomingAlert /\ ToggleMute /\ UNCHANGED nonCallVars
  \/ NoIncomingAlert /\ ToggleVideo /\ UNCHANGED nonCallVars

SpecTeardown == InitCall /\ [][NextTeardown]_vars

\* ------------------------------------------------------------------------
\* handleCallAnalysis (videocall.tsx and firstscreen.tsx)
\* ------------------------------------------------------------------------
\* the options handleCallAnalysis of the video screen hands to pollStatus
AnalysisMaxAttempts == 5

\* ids that `CALL_${Date.now()}_${Math.random()...}` can come to
CallIds == {"CALL_1", "CALL_2"}

\* the query template of either screen; the video screen picks one of two
\* sample texts at random, the voice screen appends the transcript
BuildQuery(scr, id, isEmergencyTest) ==
  IF scr = "video"
    THEN <<"Call ID: ", id,
           IF isEmergencyTest THEN ". Patient name: Emergency Patient."
           ELSE ". Patient name: John Smith.">>
    ELSE <<"Call ID: ", id, ". Patient name: Patient.", "Full conversation transcript:">>

\* the id a reader of the query finds after "Call ID: "
QueryCallId(q) == IF Len(q) >= 2 /\ q[1] = "Call ID: " THEN q[2] ELSE ""

\* what the POST /analyze exchange can come to
AnalyzeOutcomes == {"emergency", "non_emergency", "http_error", "network_error"}

\* analyzeQuery: the parsed body when response.ok, otherwise it throws
analyzeQuery(o) ==
  IF o \in {"emergency", "non_emergency"}
    THEN [ok |-> TRUE, classification |-> o]
    ELSE [ok |-> FALSE, classification |-> "none"]

\* variant: every classification is sent to the report screen
SuccessAlert_alwaysReport(classification, id) ==
  [title |-> "Consultation Complete", pathname |-> "/report", callId |-> id]

\* the alert of the success path and the route its button pushes
SuccessAlert(classification, id) ==
  IF classification = "emergency"
    THEN [title |-> "Emergency Detected", pathname |-> "/emergency", callId |-> id]
    ELSE [title |-> "Consultation Complete", pathname |-> "/report", callId |-> id]

\* the alert of the voice screen's catch block: router.push('/report')
ErrorAlert == [title |-> "Processing Error", pathname |-> "/report", callId |-> ""]

\* the state of the screen that handleCallAnalysis neither reads nor writes
hcaFrame == <<mounted, sig, peerInstance, peerId, peerReady, remotePeerId,
              localStream, remoteStream, isCalling, isCallActive, isMuted,
              isVideoOff, facingMode, currentCall, streams, conns,
              pendingStart, pendingAnswer, pendingFlip, anaInFlight, alert,
              leaked>>

\* a consultation has just ended on screen scr: the call start time is
\* recorded, nothing else of the screen is in use, and pollStatus has not
\* been called yet
InitAnalysis ==
  /\ \E scr \in {"video", "voice"} : AnalysisIdle(scr)
  /\ mounted = TRUE /\ sig = "open" /\ peerInstance = TRUE
  /\ peerId = "me" /\ peerReady = TRUE /\ remotePeerId = <<>>
  /\ localStream = 0 /\ remoteStream = 0
  /\ isCalling = FALSE /\ isCallActive = FALSE
  /\ isMuted = FALSE /\ isVideoOff = FALSE /\ facingMode = "user"
  /\ isProcessing = FALSE
  /\ currentCall = 0
  /\ callStartTime = TRUE
  /\ streams = [s \in 1..MaxStreams |-> NoStream]
  /\ conns = [c \in 1..MaxCalls |-> NoConn("none")]
  /\ pendingStart = <<>> /\ pendingAnswer = <<>> /\ pendingFlip = <<>>
  /\ anaInFlight = 0 /\ alert = "none" /\ leaked = FALSE
  /\ callDuration = 0 /\ callTimer = 0 /\ liveTimers = {} /\ effActive = FALSE
  /\ VoiceIdle
  /\ pPc = "loop"
  /\ optMaxAttempts = AnalysisMaxAttempts
  /\ hasOnProgress = TRUE
  /\ attempt = 1 /\ calls = 0 /\ waits = 0 /\ progressCalls = 0
  /\ outcomes = <<>> /\ result = NoResult /\ errMsg = NoMsg

\* handleCallAnalysis up to `await analyzeQuery(query)`
HandleCallAnalysis ==
  /\ hcaPc = "idle"
  /\ isProcessing' = TRUE
  /\ \E id \in CallIds, isEmergencyTest \in BOOLEAN :
       /\ callId' = id
       /\ query' = BuildQuery(screen, id, isEmergencyTest)
  /\ hcaPc' = "analyze"
  /\ UNCHANGED <<screen, analyzeResult, navAlert, callStartTime, hcaFrame, pollVars, timerVars, voiceVars>>

\* the finally block
Finally ==
  /\ hcaPc' = "done"
  /\ isProcessing' = FALSE
  /\ callStartTime' = FALSE

\* analyzeQuery settles. Voice screen: the alert of the classification, or
\* the "Processing Error" alert of the catch block. Video screen: on to
\* pollStatus, or the silent catch block
AnalyzeSettles ==
  /\ hcaPc = "analyze"
  /\ \E o \in AnalyzeOutcomes :
       LET r == analyzeQuery(o) IN
       /\ analyzeResult' = r.classification
       /\ IF r.ok /\ screen = "video"
            THEN /\ hcaPc' = "poll"
                 /\ UNCHANGED <<navAlert, isProcessing, callStartTime>>
            ELSE /\ navAlert' = IF screen = "video" THEN navAlert
                                ELSE IF r.ok THEN SuccessAlert(r.classification, callId)
                                ELSE ErrorAlert
                 /\ Finally
  /\ UNCHANGED <<screen, callId, query, hcaFrame, pollVars, timerVars, voiceVars>>

\* variant: the alert is shown whether pollStatus resolved or rejected
PollSettles_alertAnyway ==
  /\ hcaPc = "poll"
  /\ pPc \in {"resolved", "rejected"}
  /\ navAlert' = SuccessAlert(analyzeResult, callId)
  /\ Finally
  /\ UNCHANGED <<screen, callId, query, analyzeResult, hcaFrame, pollVars, timerVars, voiceVars>>

\* `await pollStatus(callId, {maxAttempts: 5, interval: 2000, onProgress})`
\* settles: the alert of the classification, or the silent catch block
PollSettles ==
  /\ hcaPc = "poll"
  /\ pPc \in {"resolved", "rejected"}
  /\ navAlert' = IF pPc = "resolved" THEN SuccessAlert(analyzeResult, callId)
                 ELSE navAlert
  /\ Finally
  /\ UNCHANGED <<screen, callId, query, analyzeResult, hcaFrame, pollVars, timerVars, voiceVars>>

\* the steps of the pollStatus call in between; its onProgress callback
\* only logs
NextAnalysis ==
  \/ HandleCallAnalysis
  \/ AnalyzeSettles
  \/ hcaPc = "poll" /\ AttemptStart /\ pPc' = "awaitStatus" /\ UNCHANGED nonPollVars
  \/ hcaPc = "poll" /\ StatusSettles /\ UNCHANGED nonPollVars
  \/ hcaPc = "poll" /\ TimerFires /\ UNCHANGED nonPollVars
  \/ hcaPc = "poll" /\ LoopExit /\ UNCHANGED nonPollVars
  \/ PollSettles

SpecAnalysis == InitAnalysis /\ [][NextAnalysis]_vars

\* ------------------------------------------------------------------------
\* VideoCall screen: the call timer effect (useEffect on [isCallActive])
\* ------------------------------------------------------------------------
\* the cleanup of the effect: clearInterval(callTimer.current) if non-null
TimerCleanup(live) == live \ {callTimer}

\* the id setInterval returns: one that no live timer has
FreshTimers(live) == (1..MaxTimers) \ live

\* the effects of the last render have run
EffectsFlushed == effActive = isCallActive

\* isCallActive changed: the cleanup of the previous run, then the effect.
\* Active: a new interval is stored in callTimer. Inactive: the interval in
\* callTimer is cleared, callTimer is nulled and callDuration reset
TimerEffect ==
  /\ mounted
  /\ effActive # isCallActive
  /\ effActive' = isCallActive
  /\ LET live == TimerCleanup(liveTimers) IN
       IF isCallActive
         THEN /\ FreshTimers(live) # {}
              /\ LET t == CHOOSE x \in FreshTimers(live) : \A y \in FreshTimers(live) : x <= y IN
                   /\ callTimer' = t
                   /\ liveTimers' = live \cup {t}
              /\ callDuration' = callDuration
         ELSE /\ liveTimers' = live
              /\ callTimer' = 0
              /\ callDuration' = 0
  /\ UNCHANGED <<pollVars, callVars, anaVars, voiceVars>>

\* an interval fires: setCallDuration(prev => prev + 1)
Tick ==
  /\ mounted
  /\ liveTimers # {}
  /\ callDuration < MaxDuration
  /\ callDuration' = callDuration + 1
  /\ UNCHANGED <<callTimer, liveTimers, effActive, pollVars, callVars, anaVars, voiceVars>>

\* unmounting runs the cleanup of the timer effect as well
UnmountTimer ==
  /\ liveTimers' = TimerCleanup(liveTimers)
  /\ UNCHANGED <<callDuration, callTimer, effActive>>

\* calls coming in and ending while the timer runs; the effect of a render
\* runs before the next handler or timer does
NextTimer ==
  \/ EffectsFlushed /\ PeerOpen /\ UNCHANGED nonCallVars
  \/ EffectsFlushed /\ IncomingCall /\ UNCHANGED nonCallVars
  \/ EffectsFlushed /\ AcceptCall /\ UNCHANGED nonCallVars
  \/ EffectsFlushed /\ AnswerMediaResolved /\ UNCHANGED nonCallVars
  \/ EffectsFlushed /\ CallStream /\ UNCHANGED nonCallVars
  \/ EffectsFlushed /\ CallClose /\ UNCHANGED nonCallVars
  \/ EffectsFlushed /\ NoIncomingAlert /\ EndCallButton /\ UNCHANGED nonCallVars
  \/ EffectsFlushed /\ AnalysisDone /\ UNCHANGED nonCallVars
  \/ EffectsFlushed /\ Unmount /\ UnmountTimer /\ UNCHANGED <<pollVars, anaVars, voiceVars>>
  \/ EffectsFlushed /\ Tick
  \/ TimerEffect

SpecTimer == InitCall /\ [][NextTimer]_vars

\* ------------------------------------------------------------------------
\* Voice consultation screen (firstscreen.tsx)
\* ------------------------------------------------------------------------
\* the message the 'call-start' handler appends
ConnectedMessage ==
  [speaker |-> "doctor", text |-> "Connected! The Symptom Assistant is listening..."]

\* the message the 'call-end' handler appends
EndMessage ==
  [speaker |-> "doctor", text |-> "Call ended. Analyzing your consultation..."]

\* the messages the voice SDK delivers to the 'message' handler
MessageTypes == {"transcript", "conversation-update"}
TranscriptTypes == {"partial", "final"}
Roles == {"assistant", "user"}
Transcripts == {"I have a headache", "Since when?"}

\* the speaker the 'message' handler derives from message.role
speakerOf(role) == IF role = "assistant" THEN "doctor" ELSE "patient"

\* variant: every line is attributed to the doctor
FormatLine_alwaysDoctor(msg) == <<"Doctor", ": ", msg.text>>

\* `${msg.speaker === 'doctor' ? 'Doctor' : 'Patient'}: ${msg.text}`
FormatLine(msg) ==
  <<IF msg.speaker = "doctor" THEN "Doctor" ELSE "Patient", ": ", msg.text>>

\* transcriptRef.current.map(...).join('\n'), as the sequence of its lines
fullTranscript(ref) == [i \in 1..Len(ref) |-> FormatLine(ref[i])]

\* the query of the voice screen: the template, then the transcript lines
VoiceQuery(id, ref) == BuildQuery("voice", id, FALSE) \o fullTranscript(ref)

\* the state of the video screen and of pollStatus, which the voice screen
\* does not touch
voiceFrame == <<sig, peerInstance, peerId, peerReady, remotePeerId,
                localStream, remoteStream, isCalling, isCallActive, isMuted,
                isVideoOff, facingMode, currentCall, streams, conns,
                pendingStart, pendingAnswer, pendingFlip, leaked, screen,
                pollVars, timerVars>>

InitVoice ==
  /\ PollIdle
  /\ AnalysisIdle("voice")
  /\ CallMounted(TRUE)
  /\ VoiceIdle

\* the call button: vapi.stop() when connected, else startVapiCall(), which
\* awaits vapi.start(...). The processing overlay covers the button
HandleStartCall ==
  /\ mounted
  /\ ~isProcessing
  /\ IF isConnected
       THEN vapi' = IF vapi = "active" THEN "stopping" ELSE vapi
       ELSE /\ vapi = "idle"
            /\ vapi' = "starting"
  /\ UNCHANGED <<isConnected, transcript, transcriptRef, mounted, isProcessing,
                 callStartTime, anaInFlight, alert, hcaPc, callId, query,
                 analyzeResult, navAlert, voiceFrame>>

\* vapi.start(...) rejects: the catch block of startVapiCall
VapiStartRejected ==
  /\ vapi = "starting"
  /\ vapi' = "idle"
  /\ alert' = "Failed to start voice consultation"
  /\ UNCHANGED <<isConnected, transcript, transcriptRef, mounted, isProcessing,
                 callStartTime, anaInFlight, hcaPc, callId, query,
                 analyzeResult, navAlert, voiceFrame>>

\* the 'call-start' event
VapiCallStart ==
  /\ vapi = "starting"
  /\ Len(transcriptRef) < MaxTranscript
  /\ vapi' = "active"
  /\ isConnected' = TRUE
  /\ callStartTime' = TRUE
  /\ transcriptRef' = Append(transcriptRef, ConnectedMessage)
  /\ transcript' = Append(transcript, ConnectedMessage)
  /\ UNCHANGED <<mounted, isProcessing, anaInFlight, alert, hcaPc, callId,
                 query, analyzeResult, navAlert, voiceFrame>>

\* the 'message' event: only final transcripts are recorded
VapiMessage ==
  /\ vapi \in {"active", "stopping"}
  /\ Len(transcriptRef) < MaxTranscript
  /\ \E type \in MessageTypes, transcriptType \in TranscriptTypes,
        role \in Roles, text \in Transcripts :
       IF type = "transcript" /\ transcriptType = "final"
         THEN LET newMessage == [speaker |-> speakerOf(role), text |-> text] IN
              /\ transcriptRef' = Append(transcriptRef, newMessage)
              /\ transcript' = Append(transcript, newMessage)
         ELSE UNCHANGED <<transcript, transcriptRef>>
  /\ UNCHANGED <<isConnected, vapi, mounted, isProcessing, callStartTime,
                 anaInFlight, alert, hcaPc, callId, query, analyzeResult,
                 navAlert, voiceFrame>>

\* the 'error' event
VapiError ==
  /\ vapi \in {"starting", "active", "stopping"}
  /\ alert' = "Call connection failed"
  /\ UNCHANGED <<voiceVars, mounted, isProcessing, callStartTime, anaInFlight,
                 hcaPc, callId, query, analyzeResult, navAlert, voiceFrame>>

\* the 'call-end' event (after vapi.stop(), or ended by the other side):
\* the handler, with handleCallAnalysis up to `await analyzeQuery(query)`
VapiCallEnd ==
  /\ vapi \in {"active", "stopping"}
  /\ Len(transcriptRef) < MaxTranscript
  /\ vapi' = "idle"
  /\ isConnected' = FALSE
  /\ transcriptRef' = Append(transcriptRef, EndMessage)
  /\ transcript' = Append(transcript, EndMessage)
  /\ isProcessing' = TRUE
  /\ anaInFlight' = anaInFlight + 1
  /\ hcaPc' = "analyze"
  /\ \E id \in CallIds :
       /\ callId' = id
       /\ query' = VoiceQuery(id, transcriptRef')
  /\ UNCHANGED <<mounted, callStartTime, alert, analyzeResult, navAlert,
                 voiceFrame>>

\* analyzeQuery settles: the alert of the classification or of the catch
\* block, then the finally block
VoiceAnalyzeSettles ==
  /\ anaInFlight > 0
  /\ anaInFlight' = anaInFlight - 1
  /\ \E o \in AnalyzeOutcomes :
       LET r == analyzeQuery(o) IN
       /\ analyzeResult' = r.classification
       /\ navAlert' = IF r.ok THEN SuccessAlert(r.classification, callId)
                      ELSE ErrorAlert
       /\ alert' = navAlert'.title
  /\ Finally
  /\ UNCHANGED <<voiceVars, mounted, callId, query, voiceFrame>>

\* the cleanup of the mount effect: vapi.stop(); the listeners stay
VoiceUnmount ==
  /\ mounted
  /\ mounted' = FALSE
  /\ vapi' = IF vapi \in {"starting", "active"} THEN "stopping" ELSE vapi
  /\ UNCHANGED <<isConnected, transcript, transcriptRef, isProcessing,
                 callStartTime, anaInFlight, alert, hcaPc, callId, query,
                 analyzeResult, navAlert, voiceFrame>>

NextVoice ==
  \/ HandleStartCall
  \/ VapiStartRejected
  \/ VapiCallStart
  \/ VapiMessage
  \/ VapiError
  \/ VapiCallEnd
  \/ VoiceAnalyzeSettles
  \/ VoiceUnmount

SpecVoice == InitVoice /\ [][NextVoice]_vars

\* ------------------------------------------------------------------------
\* pollStatus: properties
\* ------------------------------------------------------------------------
\* the attempts that reached getStatus (onProgress did not throw first)
StatusCalls(os) == {i \in 1..Len(os) : os[i] # ProgressThrew}

\* a field holding a non-null object
IsObject(v) == v = "object"

\* a response that carries emergency or medical-record details
Carries(body) == IsObject(body.emergency_details) \/ IsObject(body.medical_record_details)

\* C1: one invocation of pollStatus calls getStatus at most maxAttempts
\* times, 5 times when the option is omitted, whatever the outcomes are.
C1_CallsBounded ==
  /\ optMaxAttempts # Omitted => calls <= optMaxAttempts
  /\ optMaxAttempts = Omitted => calls <= 5

C1_Witness == optMaxAttempts = Omitted /\ calls = 5 /\ pPc = "rejected"

\* C2: when every getStatus call settles and every timer fires, the
\* invocation eventually resolves with a response or rejects with an Error.
C2_Terminates ==
  <>(\/ pPc = "resolved" /\ result # NoResult
     \/ pPc = "rejected" /\ errMsg # NoMsg)

C2_Witness == pPc = "resolved" /\ waits = 4

\* C3: pollStatus resolves with the first response that carries details,
\* calls getStatus and waits no more after it, and never resolves with a
\* response whose two fields are the 'No ... data' strings.
C3_ResolvesFirstData ==
  /\ [](pPc = "resolved" =>
          LET n == Len(outcomes) IN
          /\ n > 0
          /\ outcomes[n].ok
          /\ Carries(outcomes[n].data)
          /\ result = outcomes[n].data
          /\ \A i \in 1..(n - 1) : ~(outcomes[i].ok /\ Carries(outcomes[i].data))
          /\ calls = Cardinality(StatusCalls(outcomes))
          /\ waits = n - 1
          /\ result # [emergency_details |-> "No emergency data",
                       medical_record_details |-> "No medical record data"])
  /\ [][pPc = "resolved" => UNCHANGED pollVars]_vars

C3_Witness ==
  /\ pPc = "resolved"
  /\ Len(outcomes) = 3
  /\ outcomes[1].ok
  /\ outcomes[1].data = [emergency_details |-> "No emergency data",
                         medical_record_details |-> "No medical record data"]
  /\ outcomes[2].data.emergency_details = "null"

\* C4: every wait is followed by another attempt: no interval timer is
\* started after the maxAttempts-th attempt.
C4_NoWaitAfterFinalAttempt == pPc = "wait" => attempt < maxAttempts

\* C5: when no attempt yields details the invocation rejects with a
\* 'Timeout:' message, 'Data not available ...' when the last attempt threw
\* and 'Failed to get status ...' when it returned without details; it never
\* resolves with a response that lacks details.
C5_TimeoutRejection ==
  /\ pPc = "rejected" =>
       LET n == Len(outcomes) IN
       /\ StartsWithTimeout(errMsg)
       /\ n = maxAttempts
       /\ \A i \in 1..n : ~(outcomes[i].ok /\ Carries(outcomes[i].data))
       /\ result = NoResult
       /\ (n > 0 /\ ~outcomes[n].ok) => errMsg = MsgDataNotAvail
       /\ (n > 0 /\ outcomes[n].ok) => errMsg = MsgFailedStatus
  /\ pPc = "resolved" => Carries(result)
  /\ (Len(outcomes) = maxAttempts
        /\ \A i \in 1..Len(outcomes) : ~(outcomes[i].ok /\ Carries(outcomes[i].data)))
       => pPc # "resolved"

C5_Witness ==
  /\ pPc = "rejected"
  /\ errMsg = MsgFailedStatus
  /\ Len(outcomes) = 3
  /\ ~outcomes[1].ok
  /\ outcomes[3].ok

\* ------------------------------------------------------------------------
\* VideoCall screen: properties
\* ------------------------------------------------------------------------
\* a step in which endCall ran: the back / end-call button, a connection's
\* 'close' or 'error' event, the unmount cleanup
TeardownStep == EndCallButton \/ CallClose \/ CallError \/ Unmount

\* the connections a step closes
ClosedInStep == {c \in 1..MaxCalls : conns[c].st = "live" /\ conns'[c].st = "none"}

\* C6: after endCall has run, by whichever of its four invokers, every track
\* of the local stream acquired for the call is stopped and localStream is
\* null.
C6_TeardownReleasesMedia ==
  [][TeardownStep =>
       /\ localStream' = 0
       /\ ~leaked => ~leaked'
       /\ \A c \in ClosedInStep :
            conns[c].stream # 0 =>
              /\ ~streams'[conns[c].stream].audioLive
              /\ ~streams'[conns[c].stream].videoLive]_vars

\* C7: after any invocation of endCall currentCall is null and the former
\* connection is closed, remoteStream is null, isCallActive, isCalling,
\* isMuted and isVideoOff are false, and peerId, peerReady, remotePeerId and
\* the peer instance are as before (the unmount cleanup itself destroys the
\* peer after its endCall has returned).
C7_EndCallIdle ==
  [][TeardownStep =>
       /\ currentCall' = 0
       /\ currentCall # 0 => (conns'[currentCall].st = "none" /\ ~conns'[currentCall].open)
       /\ remoteStream' = 0
       /\ ~isCallActive' /\ ~isCalling' /\ ~isMuted' /\ ~isVideoOff'
       /\ peerId' = peerId
       /\ peerReady' = peerReady
       /\ remotePeerId' = remotePeerId
       /\ mounted' => peerInstance' = peerInstance]_vars

C7_Witness ==
  /\ mounted
  /\ anaInFlight > 0
  /\ currentCall = 0 /\ remoteStream = 0
  /\ ~isCallActive /\ ~isCalling /\ ~isMuted /\ ~isVideoOff
  /\ localStream = 0
  /\ peerReady /\ peerId = "me" /\ remotePeerId = <<"p">>

\* an id made of nothing but spaces (the empty id included)
IsBlank(s) == \A i \in 1..Len(s) : s[i] = " "

C9_ToggleTwiceRestores ==
  (mounted /\ ~SetupScreen) =>
    LET m1 == toggleMute(localStream, streams, isMuted)
        m2 == toggleMute(localStream, m1.streams, m1.isMuted)
        v1 == toggleVideo(localStream, streams, isVideoOff)
        v2 == toggleVideo(localStream, v1.streams, v1.isVideoOff) IN
    /\ localStream # 0 =>
         /\ m1.streams[localStream].audioEnabled = ~streams[localStream].audioEnabled
         /\ m1.isMuted = ~m1.streams[localStream].audioEnabled
         /\ v1.streams[localStream].videoEnabled = ~streams[localStream].videoEnabled
         /\ v1.isVideoOff = ~v1.streams[localStream].videoEnabled
         /\ m2.streams = streams /\ m2.isMuted = isMuted
         /\ v2.streams = streams /\ v2.isVideoOff = isVideoOff
    /\ localStream = 0 =>
         /\ m1.streams = streams /\ m1.isMuted = isMuted
         /\ v1.streams = streams /\ v1.isVideoOff = isVideoOff

\* a step that completes a flipCamera successfully
FlipSucceeds ==
  (FlipMediaResolved \/ FlipReplaceResolved) /\ Len(pendingFlip') < Len(pendingFlip)

\* C10: a successful flipCamera leaves the video sender of the current
\* connection with the new stream's video track, localStream the new stream
\* and facingMode switched; a failed one leaves facingMode and localStream
\* unchanged and the camera that was active before the flip still capturing.
C10_FlipCamera ==
  [][/\ FlipSucceeds =>
          /\ localStream' # 0 /\ localStream' # localStream
          /\ streams'[localStream'].videoLive
          /\ currentCall' # 0 => conns'[currentCall'].videoSender = localStream'
          /\ facingMode' = Flipped(facingMode)
     /\ FlipFailed =>
          /\ facingMode' = facingMode
          /\ localStream' = localStream
          /\ \A i \in 1..Len(pendingFlip) :
               (pendingFlip' = RemoveAt(pendingFlip, i) /\ pendingFlip[i].wasLive)
                 => streams'[pendingFlip[i].capLocal].videoLive]_vars

\* ------------------------------------------------------------------------
\* handleCallAnalysis: properties
\* ------------------------------------------------------------------------
\* handleCallAnalysis got through its try block: analyzeQuery resolved and,
\* on the video screen, pollStatus resolved as well
AnalysisSucceeded ==
  /\ hcaPc = "done"
  /\ analyzeResult # "none"
  /\ screen = "video" => pPc = "resolved"

\* C11: on both consultation screens, after a successful analysis the user
\* is offered navigation to /emergency exactly when the classification is
\* 'emergency' and to /report otherwise, and the callId handed to the target
\* screen is the id generated for this call and embedded in the query.
C11_DispatchRouting ==
  AnalysisSucceeded =>
    /\ navAlert # NoNav
    /\ (navAlert.pathname = "/emergency") <=> (analyzeResult = "emergency")
    /\ (navAlert.pathname = "/report") <=> (analyzeResult # "emergency")
    /\ navAlert.callId = callId
    /\ callId \in CallIds
    /\ QueryCallId(query) = callId

C11_Witness ==
  /\ AnalysisSucceeded
  /\ screen = "video"
  /\ analyzeResult = "emergency"
  /\ navAlert.pathname = "/emergency"
  /\ navAlert.callId = "CALL_2"

\* ------------------------------------------------------------------------
\* pollStatus: error handling
\* ------------------------------------------------------------------------
\* the step is a getStatus call failing, whatever the failure
StatusFails ==
  /\ pPc = "awaitStatus"
  /\ Len(outcomes') = Len(outcomes) + 1
  /\ ~outcomes'[Len(outcomes')].ok

\* C12: every getStatus failure on a non-final attempt, the 404 'No records
\* found' error like any other, is swallowed and followed by a wait and a
\* retry; no error ends the polling before the final attempt.
C12_FailuresSwallowed ==
  /\ [][(StatusFails /\ attempt < maxAttempts) =>
          /\ pPc' = "wait"
          /\ waits' = waits + 1
          /\ errMsg' = NoMsg
          /\ attempt' = attempt]_vars
  /\ [][(pPc = "wait" /\ attempt < maxAttempts /\ pPc' # "wait") =>
          (pPc' = "loop" /\ attempt' = attempt + 1 /\ attempt' <= maxAttempts)]_vars
  /\ [](pPc = "rejected" => attempt >= maxAttempts)

C12_Witness ==
  /\ pPc = "resolved"
  /\ Len(outcomes) = 4
  /\ outcomes[1].msg = MsgNoRecords
  /\ outcomes[2].msg = MsgFetchFailed
  /\ outcomes[3].msg = MsgNetwork
  /\ calls = 4 /\ waits = 3

\* ------------------------------------------------------------------------
\* VideoCall screen: consultation analysis, overlay, connections
\* ------------------------------------------------------------------------
\* C13: endCall starts the consultation analysis only if a remote stream was
\* received on the call being ended; ending a call that never connected
\* (still dialing, declined, failed) starts no analysis.
C13_AnalysisOnlyForStartedCall ==
  [][(TeardownStep /\ anaInFlight' > anaInFlight) =>
       \E c \in ClosedInStep : conns[c].streamed]_vars

\* C14: each established call is analysed at most once: whichever of the
\* end-call button, the connection's 'close' and 'error' events (the 'close'
\* raised by endCall's own call.close() included) and the unmount cleanup
\* end a call, handleCallAnalysis is started at most one time for it.
C14_AnalysedAtMostOnce ==
  [][Cardinality(ClosedInStep) <= 1 => anaInFlight' <= anaInFlight + 1]_vars

\* C15: on the video screen the navigation alert is shown only after
\* analyzeQuery and then pollStatus (5 attempts) have both succeeded, in that
\* order; if either fails no alert is shown and no navigation is offered.
C15_AlertAfterBoth ==
  screen = "video" =>
    /\ navAlert # NoNav =>
         (hcaPc = "done" /\ analyzeResult # "none" /\ pPc = "resolved")
    /\ (hcaPc = "poll" \/ calls > 0) => analyzeResult # "none"
    /\ hcaPc = "poll" => (maxAttempts = 5 /\ calls <= 5)
    /\ (hcaPc = "done" /\ (analyzeResult = "none" \/ pPc = "rejected")) =>
         navAlert = NoNav

C15_Witness ==
  /\ screen = "video"
  /\ hcaPc = "done"
  /\ analyzeResult = "emergency"
  /\ pPc = "rejected" /\ calls = 5
  /\ navAlert = NoNav

\* C16: isProcessing is true while a consultation analysis is in flight and
\* false once handleCallAnalysis has completed, whether it succeeded or
\* failed, and the recorded call start time is null afterwards.
C16_ProcessingWhileInFlight ==
  /\ [](anaInFlight > 0 => isProcessing)
  /\ [][AnalysisDone => (~isProcessing' /\ ~callStartTime')]_vars

\* C17: on the video screen the 'Analyzing consultation...' overlay is
\* rendered whenever isProcessing is true.
C17_OverlayWhileProcessing == (mounted /\ isProcessing) => ProcessingOverlay

\* C18: the call timer runs exactly while a call is active: callDuration
\* only increases while isCallActive is true, at most one interval timer
\* exists, when the call becomes inactive the timer is cleared and
\* callDuration is reset to 0, and so every new call starts counting from 0.
C18_CallTimer ==
  /\ [](Cardinality(liveTimers) <= 1)
  /\ []((mounted /\ EffectsFlushed) => (liveTimers # {} <=> isCallActive))
  /\ []((mounted /\ EffectsFlushed /\ ~isCallActive) => callDuration = 0)
  /\ [][Tick => isCallActive]_vars
  /\ [][CallStream => callDuration = 0]_vars

\* the media connections that are open
OpenConns == {c \in 1..MaxCalls : conns[c].open}

\* C19: at any time at most one media connection is open and it is the one
\* currentCall refers to: accepting or placing a call while another is
\* dialing or active never leaves the earlier connection open and
\* unreferenced; isCalling and isCallActive are never both true.
C19_OneOpenConnection ==
  /\ Cardinality(OpenConns) <= 1
  /\ \A c \in OpenConns : c = currentCall
  /\ ~(isCalling /\ isCallActive)

\* the step places a call: an outgoing media connection comes into being
CallPlaced ==
  \E c \in 1..MaxCalls :
    conns[c].st = "none" /\ conns'[c].st = "live" /\ conns'[c].outgoing

\* C20: peerReady becomes true only on the peer's 'open' event, is set to
\* false by 'error' and by 'disconnected' and stays false until a later
\* 'open'; a reconnect is attempted after 'disconnected' but not after
\* 'error'; and startCall places a call only while peerReady is true.
C20_PeerReadyTracksSignalling ==
  /\ [][(~peerReady /\ peerReady') => PeerOpen]_vars
  /\ [][(PeerError \/ PeerDisconnected) => ~peerReady']_vars
  /\ [][PeerDisconnected => sig' = "connecting"]_vars
  /\ [][(PeerError /\ sig # "connecting") => sig' # "connecting"]_vars
  /\ [][CallPlaced => peerReady]_vars

\* the lines that follow the template in a voice query
TranscriptLines(q) == SubSeq(q, 5, Len(q))

\* C21: every 'call-end' event of the voice SDK sets isConnected to false,
\* appends the "Call ended" message to the transcript and then starts
\* exactly one analysis; the query of that analysis has one line per
\* transcript entry recorded so far (the "Call ended" entry included), in
\* the order the entries were received, each line being "Doctor: " or
\* "Patient: " (by the entry's speaker) followed by the entry's text
C21_CallEndStartsOneAnalysis ==
  [][VapiCallEnd =>
       /\ isConnected' = FALSE
       /\ Len(transcriptRef') = Len(transcriptRef) + 1
       /\ SubSeq(transcriptRef', 1, Len(transcriptRef)) = transcriptRef
       /\ transcriptRef'[Len(transcriptRef')].text = "Call ended. Analyzing your consultation..."
       /\ transcript' = transcriptRef'
       /\ anaInFlight' = anaInFlight + 1
       /\ isProcessing'
       /\ SubSeq(query', 1, 4) = <<"Call ID: ", callId', ". Patient name: Patient.",
                                   "Full conversation transcript:">>
       /\ Len(TranscriptLines(query')) = Len(transcriptRef')
       /\ \A i \in 1..Len(transcriptRef') :
            LET line == TranscriptLines(query')[i]
                entry == transcriptRef'[i] IN
            /\ entry.speaker = "doctor" => line = <<"Doctor", ": ", entry.text>>
            /\ entry.speaker = "patient" => line = <<"Patient", ": ", entry.text>>
            /\ entry.speaker \in {"doctor", "patient"}]_vars

\* a call has ended with entries of both speakers in its transcript, and its
\* analysis is in flight
C21_Witness ==
  /\ vapi = "idle"
  /\ ~isConnected
  /\ anaInFlight = 1
  /\ hcaPc = "analyze"
  /\ Len(transcriptRef) >= 4
  /\ transcriptRef[Len(transcriptRef)] = EndMessage
  /\ \E i, j \in 2..(Len(transcriptRef) - 1) :
       /\ i < j
       /\ transcriptRef[i].speaker = "patient"
       /\ transcriptRef[j].speaker = "doctor"
       /\ TranscriptLines(query)[i][1] = "Patient"
       /\ TranscriptLines(query)[j][1] = "Doctor"

====
